---- MODULE Spec2Model ----
(***************************************************************************)
(* Model of the library-registry pipeline:                                 *)
(*   data_processor.py  KnihovnyDataProcessor (load, transform, score,     *)
(*                      export)                                            *)
(*   ccmm_generator.py  CCMMGenerator (generate, validate, export)         *)
(*   airflow_dag.py     the tasks of the DAG knihovny_etl_daily and their  *)
(*                      linear dependency chain                            *)
(*                                                                         *)
(* Text values are sequences of one-character strings, so that the regular *)
(* expressions, strip(), startswith() and replace() of the source are      *)
(* computed character by character.  Column names are sequences of pieces  *)
(* cut at the keywords the source searches for ('PSČ', 'e-mail', 'webov',  *)
(* 'knihovn'): the concatenation of the pieces is the header text, and a   *)
(* keyword occurs in a name iff it is one of its pieces.                   *)
(* String literals are ASCII transliterations of the Czech header text.    *)
(* pandas semantics are those of pandas 1.x/2.x with dtype=str (object     *)
(* columns, missing cells are float NaN).                                  *)
(***************************************************************************)
EXTENDS Integers, Sequences, FiniteSets, TLC

VARIABLES csv, df, df_transformed, metrics, exported, raised,
          stats_in, ccmm_metadata, metadata_in, validation,
          url_in, url_once, url_twice,
          fs_dirs, fs_file, export_in, export_raised,
          task, tries, dl_result, xcom, pstep, stages, task_raised

vars == <<csv, df, df_transformed, metrics, exported, raised,
          stats_in, ccmm_metadata, metadata_in, validation,
          url_in, url_once, url_twice,
          fs_dirs, fs_file, export_in, export_raised,
          task, tries, dl_result, xcom, pstep, stages, task_raised>>

procVars == <<csv, df, df_transformed, metrics, exported, raised>>
ccmmVars == <<stats_in, ccmm_metadata, metadata_in, validation>>
urlVars == <<url_in, url_once, url_twice>>
fsVars == <<fs_dirs, fs_file, export_in, export_raised>>
dagVars == <<task, tries, dl_result, xcom, pstep, stages, task_raised>>

\* ------------------------------------------------------------------ bounds
MaxRows == 2
MaxPieces == 2
MaxDepth == 2

\* ------------------------------------------------------- Python / pandas values
\* Every cell value is a sequence of strings: a text is the sequence of its
\* characters; the non-text values are one-element sequences whose element is
\* not a single character.
\* float('nan'): a missing cell of a DataFrame read with dtype=str
NaN == <<"NaN">>
\* Python None as a cell or a returned value
None == <<"None">>
True == <<"True">>
False == <<"False">>
Bool(b) == IF b THEN True ELSE False
\* self.df = None, and a result that does not exist
NoneRec == [none |-> TRUE]
\* an attribute that was never assigned (hasattr(...) is False)
UnsetRec == [unset |-> TRUE]
\* the result of a call that was not made yet
NotCalled == <<"NotCalled">>

isna(x) == x = NaN \/ x = None

Range(s) == {s[i] : i \in 1..Len(s)}

Whitespace == {" ", "\t", "\n"}
Digits == {"0", "1", "2", "3", "4", "5", "6", "7", "8", "9"}

RECURSIVE SelectChars(_, _)
\* the characters of s that belong to keep, in order
SelectChars(s, keep) ==
    IF s = <<>> THEN <<>>
    ELSE IF Head(s) \in keep THEN <<Head(s)>> \o SelectChars(Tail(s), keep)
    ELSE SelectChars(Tail(s), keep)

RECURSIVE ReplaceChar(_, _, _)
\* str.replace(old, new) for a one-character old
ReplaceChar(s, old, new) ==
    IF s = <<>> THEN <<>>
    ELSE <<IF Head(s) = old THEN new ELSE Head(s)>> \o ReplaceChar(Tail(s), old, new)

RECURSIVE LStrip(_)
LStrip(s) == IF s # <<>> /\ Head(s) \in Whitespace THEN LStrip(Tail(s)) ELSE s

RECURSIVE RStrip(_)
RStrip(s) ==
    IF s # <<>> /\ s[Len(s)] \in Whitespace THEN RStrip(SubSeq(s, 1, Len(s) - 1)) ELSE s

\* str.strip()
Strip(s) == RStrip(LStrip(s))

\* str.startswith(prefix)
StartsWith(s, prefix) ==
    Len(s) >= Len(prefix) /\ SubSeq(s, 1, Len(prefix)) = prefix

LowerChar(c) ==
    CASE c = "A" -> "a"
      [] c = "K" -> "k"
      [] c = "T" -> "t"
      [] c = "V" -> "v"
      [] c = "N" -> "n"
      [] c = "I" -> "i"
      [] OTHER -> c

\* str.lower()
Lower(s) == [i \in 1..Len(s) |-> LowerChar(s[i])]

\* str(x) of a cell: the text itself, 'nan' for a missing cell, 'None' for None
Str(x) ==
    IF x = NaN THEN <<"n", "a", "n">>
    ELSE IF x = None THEN <<"N", "o", "n", "e">>
    ELSE IF x = True THEN <<"T", "r", "u", "e">>
    ELSE IF x = False THEN <<"F", "a", "l", "s", "e">>
    ELSE x

\* ------------------------------------------------------------ column names
LowerPiece(p) ==
    CASE p = "KNIHOVN" -> "knihovn"
      [] p = "E-mail" -> "e-mail"
      [] p = "Webov" -> "webov"
      [] p = "PSC" -> "psc"
      [] OTHER -> p

\* keyword in col
Contains(col, keyword) == \E i \in 1..Len(col) : col[i] = keyword

\* keyword in col.lower()
ContainsLower(col, keyword) == \E i \in 1..Len(col) : LowerPiece(col[i]) = keyword

\* 'R - EVIDENČNÍ ČÍSLO KNIHOVNY'
ColReg == <<"R - EVIDENCNI CISLO ", "KNIHOVN", "Y">>
\* 'K - adresa knihovny: kraj'
ColKraj == <<"K - adresa ", "knihovn", "y: kraj">>
\* 'K - adresa knihovny: okres'
ColOkres == <<"K - adresa ", "knihovn", "y: okres">>
\* 'aktivní / zrušená (vyřazená z evidence)'
ColStatus == <<"aktivni / zrusena (vyrazena z evidence)">>
\* 'I - NÁZEV KNIHOVNY'
ColName == <<"I - NAZEV ", "KNIHOVN", "Y">>
\* 'K - adresa knihovny: PSČ'
ColPsc == <<"K - adresa ", "knihovn", "y: ", "PSC">>
\* 'N - e-mailový kontakt na knihovnu'
ColEmail == <<"N - ", "e-mail", "ovy kontakt na ", "knihovn", "u">>
\* 'O - odkaz na webovou stránku knihovny, respektive odkaz na informace o
\* knihovně na webových stránkách provozovatele'
ColWeb == <<"O - odkaz na ", "webov", "ou stranku ", "knihovn",
            "y, respektive odkaz na informace o ", "knihovn", "e na ", "webov",
            "ych strankach provozovatele">>
\* an e-mail header that does not mention the library: 'E-mail provozovatele'
ColEmailOther == <<"E-mail", " provozovatele">>
\* a raw header that already carries the derived postal-code name
ColPscClean == ColPsc \o <<"_clean">>
\* a raw header that already carries the derived validity name of an e-mail
\* column: 'E-mail provozovatele_valid'
ColEmailOtherValid == ColEmailOther \o <<"_valid">>

ColIsActive == <<"is_active">>
ColId == <<"knihovn", "a_id">>
ColHash == <<"knihovn", "a_hash">>
ColGeo == <<"geo_key">>
ColUri == <<"library_uri">>

\* -------------------------------------------------------------- DataFrame
\* n rows; cols is the column order; col[c] the cells of column c;
\* dtype[c] is "object" (text / NaN / None cells) or "bool"
HasCol(d, c) == c \in Range(d.cols)

\* df[c] = cells : replaces column c in place, or appends it
SetCol(d, c, cells, dt) ==
    IF HasCol(d, c)
    THEN [d EXCEPT !.col = (c :> cells) @@ d.col, !.dtype = (c :> dt) @@ d.dtype]
    ELSE [n |-> d.n, cols |-> Append(d.cols, c),
          col |-> (c :> cells) @@ d.col, dtype |-> (c :> dt) @@ d.dtype]

\* row.get(c): the cell, or None when the row has no such label
RowGet(d, i, c) == IF HasCol(d, c) THEN d.col[c][i] ELSE None

\* Series.notna().sum()
NotNaCount(d, c) == Cardinality({i \in 1..d.n : ~isna(d.col[c][i])})

\* next((col for col in df.columns if ...), None): the first column of the
\* column order that is in matching, else None
FirstCol(d, matching) ==
    IF \E i \in 1..Len(d.cols) : d.cols[i] \in matching
    THEN d.cols[CHOOSE i \in 1..Len(d.cols) :
                    d.cols[i] \in matching /\ \A j \in 1..(i - 1) : d.cols[j] \notin matching]
    ELSE None

\* ------------------------------------------------------- field normalizers
\* Series.str.replace(r'[^\d]', '', regex=True) on one cell; NaN stays NaN
PscClean(x) == IF isna(x) THEN NaN ELSE SelectChars(x, Digits)

\* a character of the class [^\s@]
EmailChar(c) == c \notin Whitespace /\ c # "@"

\* [^\s@]+@[^\s@]+\.[^\s@]+ consumes the whole of s
EmailFull(s) ==
    \E i \in 2..Len(s) : \E j \in (i + 2)..(Len(s) - 1) :
        /\ s[i] = "@"
        /\ s[j] = "."
        /\ \A k \in 1..Len(s) : k # i => EmailChar(s[k])

\* re.match(r'^[^\s@]+@[^\s@]+\.[^\s@]+$', s): '$' matches at the end of the
\* text and also just before a newline that ends the text
EmailRegexMatch(s) ==
    \/ EmailFull(s)
    \/ /\ s # <<>>
       /\ s[Len(s)] = "\n"
       /\ EmailFull(SubSeq(s, 1, Len(s) - 1))

\* Series.str.match(pattern, na=False) on one cell
EmailValid(x) == IF isna(x) THEN False ELSE Bool(EmailRegexMatch(x))

HttpPrefix == <<"h", "t", "t", "p", ":", "/", "/">>
HttpsPrefix == <<"h", "t", "t", "p", "s", ":", "/", "/">>
WwwPrefix == <<"w", "w", "w", ".">>

\* a plausible slip: only 'http://' is accepted as an existing scheme
MutNormalizeUrl(url) ==
    IF isna(url) \/ url = <<>> THEN None
    ELSE LET u == Strip(Str(url)) IN
         IF StartsWith(u, HttpPrefix) THEN u
         ELSE IF StartsWith(u, WwwPrefix) THEN HttpsPrefix \o u
         ELSE HttpsPrefix \o WwwPrefix \o u

_normalize_url(url) ==
    IF isna(url) \/ url = <<>> THEN None
    ELSE LET u == Strip(Str(url)) IN
         IF StartsWith(u, HttpPrefix) \/ StartsWith(u, HttpsPrefix) THEN u
         ELSE IF StartsWith(u, WwwPrefix) THEN HttpsPrefix \o u
         ELSE HttpsPrefix \o WwwPrefix \o u

\* 'aktivni' (the literal 'aktivní')
ActiveLiteral == <<"a", "k", "t", "i", "v", "n", "i">>

\* lambda x: str(x).lower().strip() == 'aktivní' if pd.notna(x) else False
IsActive(x) == IF ~isna(x) THEN Bool(Strip(Lower(Str(x))) = ActiveLiteral) ELSE False

\* ------------------------------------------------------------ transform_data
IsPscColumn(c) == Contains(c, "PSC")
IsEmailColumn(c) == ContainsLower(c, "e-mail")
IsUrlColumn(c) == ContainsLower(c, "webov")

\* the outcome of a step: a frame, or the exception it raised
Ok(d) == [err |-> "none", d |-> d]
Raise(e, d) == [err |-> e, d |-> d]

RECURSIVE PscLoop(_, _)
\* for col in psc_columns: df[f'{col}_clean'] = df[col].str.replace(...)
PscLoop(d, cs) ==
    IF cs = <<>> THEN d
    ELSE PscLoop(SetCol(d, Head(cs) \o <<"_clean">>,
                        [i \in 1..d.n |-> PscClean(d.col[Head(cs)][i])], "object"),
                 Tail(cs))

RECURSIVE EmailLoop(_, _)
\* for col in email_columns: df[f'{col}_valid'] = df[col].str.match(..., na=False)
\* (.str on a bool column raises AttributeError)
EmailLoop(d, cs) ==
    IF cs = <<>> THEN Ok(d)
    ELSE IF d.dtype[Head(cs)] # "object" THEN Raise("AttributeError", d)
    ELSE EmailLoop(SetCol(d, Head(cs) \o <<"_valid">>,
                          [i \in 1..d.n |-> EmailValid(d.col[Head(cs)][i])], "bool"),
                   Tail(cs))

RECURSIVE UrlLoop(_, _)
\* for col in url_columns: df[f'{col}_normalized'] = df[col].apply(_normalize_url)
UrlLoop(d, cs) ==
    IF cs = <<>> THEN d
    ELSE UrlLoop(SetCol(d, Head(cs) \o <<"_normalized">>,
                        [i \in 1..d.n |-> _normalize_url(d.col[Head(cs)][i])], "object"),
                 Tail(cs))

\* if '<status column>' in df.columns: df['is_active'] = df[...].apply(...)
\* (apply on an empty column gives an empty object column)
StatusStep(d) ==
    IF HasCol(d, ColStatus)
    THEN SetCol(d, ColIsActive, [i \in 1..d.n |-> IsActive(d.col[ColStatus][i])],
                IF d.n = 0 THEN "object" ELSE "bool")
    ELSE d

\* hashlib.md5(text).hexdigest(), taken as an injective digest of the text
Md5(text) == <<"md5">> \o text

\* 'https://knihovny.cz/library/'
UriPrefix ==
    HttpsPrefix \o <<"k", "n", "i", "h", "o", "v", "n", "y", ".", "c", "z", "/",
                     "l", "i", "b", "r", "a", "r", "y", "/">>

\* df['knihovna_id'] and df['knihovna_hash']
IdStep(d) ==
    IF HasCol(d, ColReg)
    THEN LET d1 == SetCol(d, ColId,
                     [i \in 1..d.n |-> IF isna(d.col[ColReg][i]) THEN NaN
                                       ELSE ReplaceChar(d.col[ColReg][i], " ", "-")],
                     "object")
         IN SetCol(d1, ColHash,
                   [i \in 1..d.n |-> IF ~isna(d1.col[ColReg][i])
                                     THEN Md5(Str(d1.col[ColReg][i])) ELSE None],
                   "object")
    ELSE d

\* df['geo_key'] = df[kraj].astype(str) + '_' + df[okres].astype(str)
GeoStep(d) ==
    IF HasCol(d, ColKraj) /\ HasCol(d, ColOkres)
    THEN SetCol(d, ColGeo,
                [i \in 1..d.n |->
                    Str(d.col[ColKraj][i]) \o <<"_">> \o Str(d.col[ColOkres][i])],
                "object")
    ELSE d

\* a plausible slip: the URI is formatted from the registry number as read,
\* without the replacement the identifier gets
MutUriStep(d) ==
    IF HasCol(d, ColReg)
    THEN SetCol(d, ColUri,
                [i \in 1..d.n |-> IF ~isna(d.col[ColReg][i])
                                  THEN UriPrefix \o Str(d.col[ColReg][i])
                                  ELSE None],
                "object")
    ELSE d

\* df['library_uri']
UriStep(d) ==
    IF HasCol(d, ColReg)
    THEN SetCol(d, ColUri,
                [i \in 1..d.n |-> IF ~isna(d.col[ColReg][i])
                                  THEN UriPrefix \o ReplaceChar(Str(d.col[ColReg][i]), " ", "-")
                                  ELSE None],
                "object")
    ELSE d

_add_linking_keys(d) == UriStep(GeoStep(IdStep(d)))

\* the body of transform_data after the copy: the enriched frame, or the
\* exception raised on the way
TransformFrame(d0) ==
    LET d1 == PscLoop(d0, SelectSeq(d0.cols, IsPscColumn))
        r2 == EmailLoop(d1, SelectSeq(d1.cols, IsEmailColumn))
    IN IF r2.err # "none" THEN r2
       ELSE Ok(_add_linking_keys(
                   StatusStep(UrlLoop(r2.d, SelectSeq(r2.d.cols, IsUrlColumn)))))

\* ------------------------------------------------------------------ load_data
\* na_values=['', 'NULL', 'null', 'N/A'], keep_default_na=False
NaValues == {<<>>, <<"N", "U", "L", "L">>, <<"n", "u", "l", "l">>, <<"N", "/", "A">>}

\* one field of the file as pd.read_csv(dtype=str, na_values=...) delivers it
ParseCell(text) == IF text \in NaValues THEN NaN ELSE text

\* pd.read_csv: the file is [header, rows], every row aligned with the header
ReadCsv(file) ==
    [n |-> Len(file.rows),
     cols |-> file.header,
     col |-> [c \in Range(file.header) |->
                [i \in 1..Len(file.rows) |->
                    ParseCell(file.rows[i][CHOOSE k \in 1..Len(file.header) :
                                               file.header[k] = c])]],
     dtype |-> [c \in Range(file.header) |-> "object"]]

\* --------------------------------------------------- calculate_quality_metrics
\* numbers are exact fractions num/den, or the float nan
NanNum == [nan |-> TRUE, num |-> 0, den |-> 1]
Frac(n, d) == [nan |-> FALSE, num |-> n, den |-> d]
Zero == Frac(0, 1)

\* numpy integer / int: 0/0 is nan (a RuntimeWarning, no exception)
NpDiv(n, d) == IF d = 0 THEN NanNum ELSE Frac(n, d)

NumAdd(a, b) ==
    IF a.nan \/ b.nan THEN NanNum
    ELSE Frac(a.num * b.den + b.num * a.den, a.den * b.den)

NumDivInt(a, k) == IF a.nan THEN NanNum ELSE Frac(a.num, a.den * k)

\* a == b on floats: nan equals nothing
NumEq(a, b) == ~a.nan /\ ~b.nan /\ a.num * b.den = b.num * a.den

IsMetricsEmailColumn(c) == ContainsLower(c, "e-mail") /\ ContainsLower(c, "knihovn")

\* a plausible slip: the scorer looks for 'e-mail' only, as transform_data does
MutMetricsEmailCol(d) == FirstCol(d, {c \in Range(d.cols) : IsEmailColumn(c)})

\* email_col = next((col for col in df.columns
\*                   if 'e-mail' in col.lower() and 'knihovn' in col.lower()), None)
MetricsEmailCol(d) == FirstCol(d, {c \in Range(d.cols) : IsMetricsEmailColumn(c)})

\* web_col = next((col for col in df.columns if 'webov' in col.lower()), None)
MetricsWebCol(d) == FirstCol(d, {c \in Range(d.cols) : IsUrlColumn(c)})

\* df[col].notna().sum() / total_records if col else 0
Completeness(d, c) == IF c # None THEN NpDiv(NotNaCount(d, c), d.n) ELSE Zero

\* df['is_active'].sum()
ActiveCount(d) == Cardinality({i \in 1..d.n : d.col[ColIsActive][i] = True})

\* the returned mapping (without the clock-dependent 'calculated_at');
\* active is the value of active_ratio
MetricsOf(d, active) ==
    LET e == Completeness(d, MetricsEmailCol(d))
        w == Completeness(d, MetricsWebCol(d))
    IN [total_records |-> d.n,
        email_completeness |-> e,
        web_completeness |-> w,
        active_ratio |-> active,
        quality_score |-> NumDivInt(NumAdd(NumAdd(e, w), active), 3)]

\* ------------------------------------------------------------- _export_jsonld
\* '..._normalized' of the website column
ColWebNormalized == ColWeb \o <<"_normalized">>

\* the candidate top-level properties of one entity, before the filter
LibraryProps(d, i) ==
    [k \in {"@context", "@type", "@id", "name", "identifier", "email", "url"} |->
        CASE k = "@context" -> <<"https://schema.org/">>
          [] k = "@type" -> <<"Library">>
          [] k = "@id" -> RowGet(d, i, ColUri)
          [] k = "name" -> RowGet(d, i, ColName)
          [] k = "identifier" -> RowGet(d, i, ColReg)
          [] k = "email" -> RowGet(d, i, ColEmail)
          [] k = "url" -> RowGet(d, i, ColWebNormalized)]

\* the nested address mapping (a dict is never None or '', so it is kept)
LibraryAddress(d, i) ==
    [type |-> <<"PostalAddress">>,
     streetAddress |-> RowGet(d, i, <<"K - adresa ", "knihovn", "y: ulice">>),
     postalCode |-> RowGet(d, i, ColPsc),
     addressLocality |-> RowGet(d, i, <<"K - adresa ", "knihovn", "y: mesto">>),
     addressRegion |-> RowGet(d, i, ColKraj),
     addressCountry |-> <<"CZ">>]

\* library = {k: v for k, v in library.items() if v is not None and v != ''}
KeepProp(v) == v # None /\ v # <<>>

Library(d, i) ==
    LET all == LibraryProps(d, i)
    IN [props |-> [k \in {k \in DOMAIN all : KeepProp(all[k])} |-> all[k]],
        address |-> LibraryAddress(d, i)]

Jsonld(d) ==
    [context |-> <<"https://schema.org/">>,
     graph |-> [i \in 1..d.n |-> Library(d, i)]]

\* ------------------------------------------------- the source files considered
\* the texts a field of each column takes in the files considered
CellDomain(c) ==
    CASE c = ColReg -> {<<>>, <<"1", " ", "2">>, <<"3", "\t", "4">>}
      [] c = ColKraj -> {<<>>, <<"A">>}
      [] c = ColOkres -> {<<>>, <<"B">>}
      [] c = ColStatus -> {<<>>, <<"A", "k", "t", "i", "v", "n", "i", " ">>, <<"z">>}
      [] c = ColName -> {<<>>, <<"K">>}
      [] c = ColPsc -> {<<>>, <<"1", " ", "2">>, <<"x">>}
      [] c = ColPscClean -> {<<>>, <<"9">>}
      [] c = ColEmail -> {<<>>, <<"a", "@", "b", ".", "c">>,
                          <<"a", "@", "b", ".", "c", "\n">>, <<"a", "@", "b">>}
      [] c = ColEmailOther -> {<<>>, <<"a", "@", "b", ".", "c">>}
      [] c = ColEmailOtherValid -> {<<>>, <<"y">>}
      [] c = ColWeb -> {<<"N", "/", "A">>, <<"w", "w", "w", ".", "a">>}

\* the header rows of the files considered
Headers ==
    {<<ColKraj, ColOkres>>,
     <<ColEmail, ColWeb>>,
     <<ColEmailOther, ColStatus>>,
     <<ColPsc, ColPscClean>>,
     <<ColPscClean, ColPsc>>,
     <<ColEmailOther, ColEmailOtherValid>>,
     <<ColKraj, ColReg>>,
     <<ColName, ColReg>>,
     <<ColName>>}

AllCells == UNION {UNION {CellDomain(h[i]) : i \in 1..Len(h)} : h \in Headers}

RowsOf(h) == {r \in [1..Len(h) -> AllCells] : \A i \in 1..Len(h) : r[i] \in CellDomain(h[i])}

Files ==
    UNION {{[header |-> h, rows |-> rs] : rs \in UNION {[1..k -> RowsOf(h)] : k \in 0..MaxRows}}
           : h \in Headers}

\* ------------------------------------------------ KnihovnyDataProcessor: state
\* csv             the content of the file at csv_file_path
\* df              self.df
\* df_transformed  self.df_transformed
\* metrics         the mapping calculate_quality_metrics returned last
\* exported        what export_formats wrote last
\* raised          the exception the last call ended with, or "none"
IdleCcmm ==
    /\ stats_in = NoneRec
    /\ ccmm_metadata = NoneRec
    /\ metadata_in = NoneRec
    /\ validation = NoneRec

IdleUrl ==
    /\ url_in = None
    /\ url_once = NotCalled
    /\ url_twice = NotCalled

\* ----------------------------------------------------- the file system: state
\* fs_dirs        the directories that exist, each the sequence of its
\*                components from the root (<<>> is the root, or the working
\*                directory of a relative path)
\* fs_file        the file export_metadata wrote last: its path and document
\* export_in      the output_path of the last export_metadata call
\* export_raised  the exception that call ended with, or "none"
TmpDir == <<"tmp">>

IdleFs ==
    /\ fs_dirs = {<<>>, TmpDir}
    /\ fs_file = NoneRec
    /\ export_in = NotCalled
    /\ export_raised = "none"

\* ------------------------------------------------ DAG knihovny_etl_daily: state
\* task         the state of each task instance of the DAG run
\* tries        the number of attempts of each task started so far
\* dl_result    result['status'] of the last download_latest_evidence call
\* xcom         the values pushed by the tasks of the run
\* pstep        the position of the running process_data_task
\* stages       the stage calls started in the run, in order
\* task_raised  the exception the last task callable ended with, or "none"
Tasks ==
    <<"start_pipeline", "download_data", "process_data", "store_data",
      "generate_ccmm", "generate_report", "end_pipeline">>

NoXcom ==
    [csv_file |-> "", quality_metrics |-> NoneRec, processed_files |-> FALSE,
     storage_result |-> FALSE, ccmm_file |-> ""]

IdleDag ==
    /\ task = [t \in Range(Tasks) |-> "none"]
    /\ tries = [t \in Range(Tasks) |-> 0]
    /\ dl_result = "none"
    /\ xcom = NoXcom
    /\ pstep = "idle"
    /\ stages = <<>>
    /\ task_raised = "none"

IdleProcessor ==
    /\ csv = [header |-> <<>>, rows |-> <<>>]
    /\ df = NoneRec
    /\ df_transformed = UnsetRec
    /\ metrics = NoneRec
    /\ exported = NoneRec
    /\ raised = "none"

\* KnihovnyDataProcessor(csv_file_path)
Init ==
    /\ csv \in Files
    /\ df = NoneRec
    /\ df_transformed = UnsetRec
    /\ metrics = NoneRec
    /\ exported = NoneRec
    /\ raised = "none"
    /\ IdleCcmm
    /\ IdleUrl
    /\ IdleFs
    /\ IdleDag

\* what load_data does to the processor
LoadData ==
    /\ df' = ReadCsv(csv)
    /\ raised' = "none"
    /\ UNCHANGED <<csv, df_transformed, metrics, exported>>

load_data ==
    /\ LoadData
    /\ UNCHANGED <<ccmmVars, urlVars, fsVars, dagVars>>

\* self.df after "if self.df is None: self.load_data()"
LoadedDf == IF df = NoneRec THEN ReadCsv(csv) ELSE df

\* what transform_data does to the processor
TransformData ==
    LET r == TransformFrame(LoadedDf)
    IN /\ df' = LoadedDf
       /\ IF r.err = "none"
          THEN df_transformed' = r.d
          ELSE UNCHANGED df_transformed
       /\ raised' = r.err
       /\ UNCHANGED <<csv, metrics, exported>>

transform_data ==
    /\ TransformData
    /\ UNCHANGED <<ccmmVars, urlVars, fsVars, dagVars>>

\* "if not hasattr(self, 'df_transformed'): self.transform_data()"
LazyTransform == IF df_transformed = UnsetRec THEN TransformFrame(LoadedDf) ELSE Ok(df_transformed)

\* what df['is_active'].sum() of an empty (object) column is: the Python int 0,
\* whose division by zero raises, or a numpy zero, whose division gives nan
EmptySumKinds(d) ==
    IF HasCol(d, ColIsActive) /\ d.n = 0 THEN {"int", "numpy"} ELSE {"numpy"}

\* what calculate_quality_metrics does to the processor
CalculateQualityMetrics ==
    LET r == LazyTransform
    IN /\ df' = IF df_transformed = UnsetRec THEN LoadedDf ELSE df
       /\ IF r.err # "none"
          THEN /\ raised' = r.err
               /\ UNCHANGED <<df_transformed, metrics>>
          ELSE /\ df_transformed' = r.d
               /\ \E kind \in EmptySumKinds(r.d) :
                     IF kind = "int"
                     THEN /\ raised' = "ZeroDivisionError"
                          /\ UNCHANGED metrics
                     ELSE /\ raised' = "none"
                          /\ metrics' =
                               MetricsOf(r.d, IF HasCol(r.d, ColIsActive)
                                              THEN NpDiv(ActiveCount(r.d), r.d.n)
                                              ELSE Zero)
       /\ UNCHANGED <<csv, exported>>

calculate_quality_metrics ==
    /\ CalculateQualityMetrics
    /\ UNCHANGED <<ccmmVars, urlVars, fsVars, dagVars>>

\* what export_formats does to the processor and its output files: the CSV
\* and JSON files are written from the same frame (frame); the JSON-LD file
\* is jsonld
ExportFormats ==
    LET r == LazyTransform
    IN /\ df' = IF df_transformed = UnsetRec THEN LoadedDf ELSE df
       /\ IF r.err # "none"
          THEN /\ raised' = r.err
               /\ UNCHANGED <<df_transformed, exported>>
          ELSE /\ df_transformed' = r.d
               /\ exported' = [frame |-> r.d, jsonld |-> Jsonld(r.d)]
               /\ raised' = "none"
       /\ UNCHANGED <<csv, metrics>>

export_formats ==
    /\ ExportFormats
    /\ UNCHANGED <<ccmmVars, urlVars, fsVars, dagVars>>

Next ==
    \/ load_data
    \/ transform_data
    \/ calculate_quality_metrics
    \/ export_formats

Spec == Init /\ [][Next]_vars

\* ---------------------------------------------- _normalize_url applied twice
\* the pieces the argument texts are built from
UrlPieces ==
    {HttpPrefix, HttpsPrefix, WwwPrefix, <<"h", "t", "t", "p">>, <<"w", "w", "w">>,
     <<"a">>, <<" ">>, <<"\t">>}

RECURSIVE Concat(_)
\* the concatenation of a sequence of texts
Concat(texts) == IF texts = <<>> THEN <<>> ELSE Head(texts) \o Concat(Tail(texts))

\* the arguments considered: a missing cell, None, and every text made of at
\* most MaxPieces pieces (the empty text included)
UrlInputs ==
    {NaN, None} \cup {Concat(ps) : ps \in UNION {[1..k -> UrlPieces] : k \in 0..MaxPieces}}

InitUrl ==
    /\ url_in \in UrlInputs
    /\ url_once = NotCalled
    /\ url_twice = NotCalled
    /\ IdleProcessor
    /\ IdleCcmm
    /\ IdleFs
    /\ IdleDag

\* url_once = self._normalize_url(url_in)
NormalizeOnce ==
    /\ url_once = NotCalled
    /\ url_once' = _normalize_url(url_in)
    /\ UNCHANGED <<url_in, url_twice, procVars, ccmmVars, fsVars, dagVars>>

\* url_twice = self._normalize_url(url_once)
NormalizeTwice ==
    /\ url_once # NotCalled
    /\ url_twice = NotCalled
    /\ url_twice' = _normalize_url(url_once)
    /\ UNCHANGED <<url_in, url_once, procVars, ccmmVars, fsVars, dagVars>>

NextUrl == NormalizeOnce \/ NormalizeTwice

SpecUrl == InitUrl /\ [][NextUrl]_vars

\* C8: URL normalization is idempotent: normalizing the result of
\* _normalize_url gives that result again
C8_NormalizeUrlIdempotent == url_twice # NotCalled => url_twice = url_once

\* C8 witness: a text without scheme was given 'https://' or 'https://www.',
\* and the result was normalized again
C8_Witness ==
    /\ url_twice # NotCalled
    /\ ~isna(url_in)
    /\ url_once # None
    /\ url_once # Strip(url_in)

\* --------------------------------------------------------------- CCMMGenerator
\* the top-level keys of the template of generate_dataset_metadata
TemplateKeys ==
    {"@context", "@type", "@id", "dct:title", "dct:description", "dct:publisher",
     "dcat:contactPoint", "dct:spatial", "dct:accrualPeriodicity", "dct:language",
     "dct:license", "dcat:keyword", "dcat:theme", "dct:issued", "dct:modified",
     "dcat:distribution"}

\* the two distributions, by their @id
_generate_distributions == <<"distribution/knihovny-csv", "distribution/knihovny-jsonld">>

\* round(x, 3): the nearest multiple of 1/1000, ties to even; nan stays nan
Round3(x) ==
    IF x.nan THEN NanNum
    ELSE LET q == (x.num * 1000) \div x.den
             r == (x.num * 1000) % x.den
         IN Frac(IF 2 * r > x.den \/ (2 * r = x.den /\ q % 2 = 1) THEN q + 1 ELSE q, 1000)

\* one dqv:QualityMeasurement, by the label of its metric and its dqv:value
Measurement(label, value) == [label |-> label, value |-> Round3(value)]

_generate_quality_measurements(stats) ==
    (IF "email_completeness" \in DOMAIN stats
     THEN <<Measurement("Uplnost emailovych kontaktu", stats["email_completeness"])>>
     ELSE <<>>)
    \o
    (IF "quality_score" \in DOMAIN stats
     THEN <<Measurement("Celkove skore kvality dat", stats["quality_score"])>>
     ELSE <<>>)

\* a plausible slip: the template without its distribution list
MutTemplate ==
    [k \in TemplateKeys \ {"dcat:distribution"} |-> <<"template">>]

Template ==
    [k \in TemplateKeys |->
        IF k = "dcat:distribution" THEN _generate_distributions ELSE <<"template">>]

\* the argument of generate_dataset_metadata: None, or a mapping
StatsNone == [none |-> TRUE, map |-> <<>>]
StatsMap(m) == [none |-> FALSE, map |-> m]

\* a plausible slip: "if stats is not None" for "if stats"
MutGenerateDatasetMetadata(arg) ==
    IF ~arg.none
    THEN ("dqv:hasQualityMeasurement" :> _generate_quality_measurements(arg.map)) @@ Template
    ELSE Template

\* generate_dataset_metadata(stats): "if stats" is true of a non-empty mapping
GenerateDatasetMetadata(arg) ==
    LET stats == IF arg.none THEN <<>> ELSE arg.map
    IN IF DOMAIN stats # {}
       THEN ("dqv:hasQualityMeasurement" :> _generate_quality_measurements(stats)) @@ Template
       ELSE Template

required_fields ==
    <<"@context", "@type", "dct:title", "dct:description", "dct:publisher",
      "dcat:contactPoint">>

RECURSIVE CheckRequired(_, _, _)
\* for field in required_fields: if field not in metadata: ...
CheckRequired(fields, metadata, v) ==
    IF fields = <<>> THEN v
    ELSE CheckRequired(Tail(fields), metadata,
                       IF Head(fields) \notin DOMAIN metadata
                       THEN [v EXCEPT !.missing_fields = Append(@, Head(fields)),
                                      !.is_valid = FALSE]
                       ELSE v)

\* a plausible slip: a missing distribution list invalidates the document
MutValidateCcmm(metadata) ==
    LET v == CheckRequired(required_fields, metadata,
                           [is_valid |-> TRUE, missing_fields |-> <<>>, warnings |-> <<>>])
    IN IF "dcat:distribution" \notin DOMAIN metadata
       THEN [v EXCEPT !.warnings = Append(@, "No distributions defined"),
                      !.is_valid = FALSE]
       ELSE v

ValidateCcmm(metadata) ==
    LET v == CheckRequired(required_fields, metadata,
                           [is_valid |-> TRUE, missing_fields |-> <<>>, warnings |-> <<>>])
    IN IF "dcat:distribution" \notin DOMAIN metadata
       THEN [v EXCEPT !.warnings = Append(@, "No distributions defined")]
       ELSE v

\* the keys and values of the stats mappings considered
StatKeys == {"email_completeness", "quality_score", "web_completeness"}
StatValues == {Frac(2, 3), NanNum}

StatsInputs ==
    {StatsNone} \cup
    {StatsMap(m) : m \in UNION {[ks -> StatValues] : ks \in SUBSET StatKeys}}

\* the mappings validate_ccmm is given: any part of the required keys, with or
\* without the distribution list
MetadataInputs ==
    {[k \in ks |-> <<"value">>] :
        ks \in SUBSET (Range(required_fields) \cup {"dcat:distribution"})}

\* ------------------------------------------------------------ export_metadata
\* output_file.parent
Parent(path) == SubSeq(path, 1, Len(path) - 1)

\* Path.mkdir(exist_ok=True), parents=False: an existing directory is left as
\* it is, a missing one is created if its own parent exists, and otherwise
\* the call raises FileNotFoundError
Mkdir(dirs, dir) ==
    IF dir \in dirs THEN [err |-> "none", dirs |-> dirs]
    ELSE IF Parent(dir) \in dirs THEN [err |-> "none", dirs |-> dirs \cup {dir}]
    ELSE [err |-> "FileNotFoundError", dirs |-> dirs]

\* what export_metadata(metadata, output_path) does to the file system
ExportMetadata(metadata, output_path) ==
    LET r == Mkdir(fs_dirs, Parent(output_path))
    IN /\ export_in' = output_path
       /\ fs_dirs' = r.dirs
       /\ export_raised' = r.err
       /\ fs_file' = IF r.err = "none"
                     THEN [path |-> output_path, doc |-> metadata]
                     ELSE fs_file

\* "/tmp/knihovny_ccmm.json"
CcmmFile == TmpDir \o <<"knihovny_ccmm.json">>

\* what generate_ccmm_task does, quality_metrics being the value it pulled:
\* generate, validate, raise if invalid, export
GenerateCcmmTask(quality_metrics) ==
    LET metadata == GenerateDatasetMetadata(quality_metrics)
        v == ValidateCcmm(metadata)
    IN /\ stats_in' = quality_metrics
       /\ ccmm_metadata' = metadata
       /\ metadata_in' = metadata
       /\ validation' = v
       /\ IF ~v.is_valid
          THEN /\ task_raised' = "ValueError: CCMM validation failed"
               /\ UNCHANGED fsVars
          ELSE /\ ExportMetadata(metadata, CcmmFile)
               /\ task_raised' = Mkdir(fs_dirs, Parent(CcmmFile)).err

InitCcmm ==
    /\ IdleCcmm
    /\ IdleProcessor
    /\ IdleUrl
    /\ IdleFs
    /\ IdleDag

generate_dataset_metadata ==
    /\ \E arg \in StatsInputs :
          /\ stats_in' = arg
          /\ ccmm_metadata' = GenerateDatasetMetadata(arg)
    /\ UNCHANGED <<metadata_in, validation, procVars, urlVars, fsVars, dagVars>>

validate_ccmm ==
    /\ \E metadata \in MetadataInputs :
          /\ metadata_in' = metadata
          /\ validation' = ValidateCcmm(metadata)
    /\ UNCHANGED <<stats_in, ccmm_metadata, procVars, urlVars, fsVars, dagVars>>

\* generate_ccmm_task with any value pulled for quality_metrics
generate_ccmm_task ==
    /\ \E arg \in StatsInputs : GenerateCcmmTask(arg)
    /\ UNCHANGED <<procVars, urlVars, task, tries, dl_result, xcom, pstep, stages>>

NextCcmm == generate_dataset_metadata \/ validate_ccmm

\* the generator as the DAG task uses it
NextCcmmTask == generate_dataset_metadata \/ generate_ccmm_task

SpecCcmmTask == InitCcmm /\ [][NextCcmmTask]_vars

SpecCcmm == InitCcmm /\ [][NextCcmm]_vars

\* C6: missing_fields is the list of the required keys absent from the
\* mapping, in the order of the required list; is_valid is true iff that list
\* is empty; a missing 'dcat:distribution' adds a warning and leaves is_valid
\* as it is
C6_ValidationReportsMissingKeys ==
    validation # NoneRec =>
        /\ validation.missing_fields =
              SelectSeq(required_fields, LAMBDA k : k \notin DOMAIN metadata_in)
        /\ validation.is_valid <=> validation.missing_fields = <<>>
        /\ validation.warnings # <<>> <=> "dcat:distribution" \notin DOMAIN metadata_in

\* C6 witness: a mapping with every required key and no distribution list was
\* validated: valid, with a warning
C6_Witness ==
    /\ validation # NoneRec
    /\ Range(required_fields) \subseteq DOMAIN metadata_in
    /\ "dcat:distribution" \notin DOMAIN metadata_in
    /\ validation.is_valid
    /\ validation.warnings # <<>>

\* the labels of the measurements for the recognized keys of a stats mapping
RecognizedLabels(stats) ==
    (IF "email_completeness" \in DOMAIN stats THEN <<"Uplnost emailovych kontaktu">> ELSE <<>>)
    \o (IF "quality_score" \in DOMAIN stats THEN <<"Celkove skore kvality dat">> ELSE <<>>)

\* C7: the document has a quality-measurement list iff a non-empty stats
\* mapping was supplied, and the list then has exactly one entry for each of
\* email_completeness and quality_score that the mapping has, and no other
C7_MeasurementsForRecognizedKeys ==
    ccmm_metadata # NoneRec =>
        LET has == "dqv:hasQualityMeasurement" \in DOMAIN ccmm_metadata
            list == ccmm_metadata["dqv:hasQualityMeasurement"]
        IN /\ has <=> (~stats_in.none /\ DOMAIN stats_in.map # {})
           /\ has => [i \in 1..Len(list) |-> list[i].label] = RecognizedLabels(stats_in.map)

\* C7 witness: a mapping with a recognized and an unrecognized key gave a list
\* of one measurement
C7_Witness ==
    /\ ccmm_metadata # NoneRec
    /\ DOMAIN stats_in.map = {"quality_score", "web_completeness"}
    /\ Len(ccmm_metadata["dqv:hasQualityMeasurement"]) = 1

\* ------------------------------------------- export_metadata to any directory
\* the names of the directories considered
DirNames == {"a", "b"}

\* the directories considered: every path of at most MaxDepth names
Dirs == UNION {[1..k -> DirNames] : k \in 0..MaxDepth}

\* the states of the file system considered: the root exists, and a directory
\* exists only if its parent does
DirTrees ==
    {ds \in SUBSET Dirs : <<>> \in ds /\ \A d \in ds : d = <<>> \/ Parent(d) \in ds}

\* the documents exported: generated without and with statistics
ExportDocs ==
    {GenerateDatasetMetadata(StatsNone),
     GenerateDatasetMetadata(StatsMap([k \in {"quality_score"} |-> Frac(2, 3)]))}

InitExport ==
    /\ fs_dirs \in DirTrees
    /\ fs_file = NoneRec
    /\ export_in = NotCalled
    /\ export_raised = "none"
    /\ IdleProcessor
    /\ IdleCcmm
    /\ IdleUrl
    /\ IdleDag

\* export_metadata(metadata, dir/ccmm_metadata.json)
export_metadata ==
    /\ \E metadata \in ExportDocs, dir \in Dirs :
          ExportMetadata(metadata, dir \o <<"ccmm_metadata.json">>)
    /\ UNCHANGED <<procVars, ccmmVars, urlVars, dagVars>>

NextExport == export_metadata

SpecExport == InitExport /\ [][NextExport]_vars

\* ----------------------------------------- one processor, republished snapshots
\* the snapshots published at csv_file_path
ReloadFiles == {f \in Files : f.header = <<ColName, ColReg>> /\ Len(f.rows) <= 1
                                /\ \A i \in 1..Len(f.rows) : f.rows[i][1] = <<"K">>}

InitReload ==
    /\ csv \in ReloadFiles
    /\ df = NoneRec
    /\ df_transformed = UnsetRec
    /\ metrics = NoneRec
    /\ exported = NoneRec
    /\ raised = "none"
    /\ IdleCcmm
    /\ IdleUrl
    /\ IdleFs
    /\ IdleDag

\* the downloader writes a new snapshot to the path the processor reads
\* (convert_xlsx_to_csv: df.to_csv(csv_path))
convert_xlsx_to_csv ==
    /\ csv' \in ReloadFiles \ {csv}
    /\ UNCHANGED <<df, df_transformed, metrics, exported, raised>>
    /\ UNCHANGED <<ccmmVars, urlVars, fsVars, dagVars>>

NextReload ==
    \/ convert_xlsx_to_csv
    \/ load_data
    \/ transform_data
    \/ calculate_quality_metrics
    \/ export_formats

SpecReload == InitReload /\ [][NextReload]_vars

\* --------------------------------------------------- DAG knihovny_etl_daily
\* default_args['retries']
retries == 2

\* the position of a task in the chain
\* start_task >> download_data >> process_data >> store_data >> generate_ccmm
\*            >> generate_report >> end_task
TaskIndex(t) == CHOOSE i \in 1..Len(Tasks) : Tasks[i] = t

\* a plausible slip: a task is scheduled whatever the state of its upstream task
MutReady(t) == task[t] \in {"none", "up_for_retry"}

\* a task instance is scheduled iff it has not run, or waits for a retry, and
\* its upstream task succeeded (trigger rule all_success)
Ready(t) ==
    /\ task[t] \in {"none", "up_for_retry"}
    /\ IF TaskIndex(t) = 1 THEN TRUE ELSE task[Tasks[TaskIndex(t) - 1]] = "success"

\* the state of a task instance after its n-th attempt ended with err
Outcome(n, err) ==
    IF err = "none" THEN "success"
    ELSE IF n <= retries THEN "up_for_retry"
    ELSE "failed"

\* the files the download leaves at csv_file
DagFiles == {f \in Files : Len(f.rows) <= 1}

InitDag ==
    /\ IdleDag
    /\ IdleProcessor
    /\ IdleCcmm
    /\ IdleUrl
    /\ IdleFs

\* start_task and end_task
DummyOperator ==
    /\ \E t \in {"start_pipeline", "end_pipeline"} :
          /\ Ready(t)
          /\ task' = [task EXCEPT ![t] = "success"]
          /\ tries' = [tries EXCEPT ![t] = @ + 1]
    /\ UNCHANGED <<dl_result, xcom, pstep, stages, task_raised>>
    /\ UNCHANGED <<procVars, ccmmVars, urlVars, fsVars>>

\* download_data_task: the result of download_latest_evidence is 'success',
\* with a file written at csv_file, or 'failed'
download_data ==
    /\ Ready("download_data")
    /\ tries' = [tries EXCEPT !["download_data"] = @ + 1]
    /\ \E status \in {"success", "failed"} :
          /\ dl_result' = status
          /\ IF status # "success"
             THEN /\ task_raised' = "ValueError: Download failed"
                  /\ stages' = Append(stages, "AcquireFailed")
                  /\ xcom' = [xcom EXCEPT !.csv_file = ""]
                  /\ UNCHANGED csv
             ELSE /\ task_raised' = "none"
                  /\ stages' = Append(stages, "Acquire")
                  /\ xcom' = [xcom EXCEPT !.csv_file = "/tmp/knihovny_data/knihovny_evidence.csv"]
                  /\ csv' \in DagFiles
    /\ task' = [task EXCEPT !["download_data"] = Outcome(tries'["download_data"], task_raised')]
    /\ UNCHANGED <<df, df_transformed, metrics, exported, raised, pstep>>
    /\ UNCHANGED <<ccmmVars, urlVars, fsVars>>

\* process_data_task up to processor.load_data(): pull csv_file, raise if it
\* is empty, construct the processor and load
process_data_load ==
    /\ Ready("process_data")
    /\ tries' = [tries EXCEPT !["process_data"] = @ + 1]
    /\ xcom' = [xcom EXCEPT !.quality_metrics = NoneRec, !.processed_files = FALSE]
    /\ IF xcom.csv_file = ""
       THEN /\ task_raised' = "ValueError: CSV file not found"
            /\ task' = [task EXCEPT !["process_data"] =
                            Outcome(tries'["process_data"], task_raised')]
            /\ pstep' = "idle"
            /\ UNCHANGED procVars
       ELSE /\ task_raised' = "none"
            /\ task' = [task EXCEPT !["process_data"] = "running"]
            /\ pstep' = "loaded"
            /\ df' = ReadCsv(csv)
            /\ df_transformed' = UnsetRec
            /\ metrics' = NoneRec
            /\ raised' = "none"
            /\ UNCHANGED <<csv, exported>>
    /\ UNCHANGED <<dl_result, stages>>
    /\ UNCHANGED <<ccmmVars, urlVars, fsVars>>

\* the running process_data_task ends with the exception err, or goes on to
\* the position next
ProcessStep(err, next) ==
    IF err = "none"
    THEN /\ pstep' = next
         /\ UNCHANGED <<task, task_raised>>
    ELSE /\ pstep' = "idle"
         /\ task_raised' = err
         /\ task' = [task EXCEPT !["process_data"] = Outcome(tries["process_data"], err)]

\* process_data_task: processor.transform_data()
process_data_transform ==
    /\ task["process_data"] = "running"
    /\ pstep = "loaded"
    /\ stages' = Append(stages, "Transform")
    /\ TransformData
    /\ ProcessStep(raised', "transformed")
    /\ UNCHANGED <<tries, dl_result, xcom>>
    /\ UNCHANGED <<ccmmVars, urlVars, fsVars>>

\* process_data_task: metrics = processor.calculate_quality_metrics()
process_data_score ==
    /\ task["process_data"] = "running"
    /\ pstep = "transformed"
    /\ stages' = Append(stages, "Score")
    /\ CalculateQualityMetrics
    /\ ProcessStep(raised', "scored")
    /\ UNCHANGED <<tries, dl_result, xcom>>
    /\ UNCHANGED <<ccmmVars, urlVars, fsVars>>

\* process_data_task: files = processor.export_formats(...), the two pushes
\* and the return
process_data_export ==
    /\ task["process_data"] = "running"
    /\ pstep = "scored"
    /\ stages' = Append(stages, "Export")
    /\ ExportFormats
    /\ IF raised' = "none"
       THEN /\ pstep' = "done"
            /\ xcom' = [xcom EXCEPT !.quality_metrics = metrics, !.processed_files = TRUE]
            /\ task' = [task EXCEPT !["process_data"] = "success"]
            /\ UNCHANGED task_raised
       ELSE /\ ProcessStep(raised', "done")
            /\ UNCHANGED xcom
    /\ UNCHANGED <<tries, dl_result>>
    /\ UNCHANGED <<ccmmVars, urlVars, fsVars>>

\* store_data_task
store_data ==
    /\ Ready("store_data")
    /\ tries' = [tries EXCEPT !["store_data"] = @ + 1]
    /\ task' = [task EXCEPT !["store_data"] = "success"]
    /\ xcom' = [xcom EXCEPT !.storage_result = TRUE]
    /\ UNCHANGED <<dl_result, pstep, stages, task_raised>>
    /\ UNCHANGED <<procVars, ccmmVars, urlVars, fsVars>>

\* generate_ccmm_task with the quality_metrics pushed by process_data
generate_ccmm ==
    /\ Ready("generate_ccmm")
    /\ tries' = [tries EXCEPT !["generate_ccmm"] = @ + 1]
    /\ stages' = Append(stages, "Describe")
    /\ GenerateCcmmTask(IF xcom.quality_metrics = NoneRec
                         THEN StatsNone
                         ELSE StatsMap(xcom.quality_metrics))
    /\ task' = [task EXCEPT !["generate_ccmm"] = Outcome(tries'["generate_ccmm"], task_raised')]
    /\ xcom' = IF task_raised' = "none"
               THEN [xcom EXCEPT !.ccmm_file = "/tmp/knihovny_ccmm.json"]
               ELSE xcom
    /\ UNCHANGED <<dl_result, pstep>>
    /\ UNCHANGED <<procVars, urlVars>>

\* generate_report_task
generate_report ==
    /\ Ready("generate_report")
    /\ tries' = [tries EXCEPT !["generate_report"] = @ + 1]
    /\ task' = [task EXCEPT !["generate_report"] = "success"]
    /\ UNCHANGED <<dl_result, xcom, pstep, stages, task_raised>>
    /\ UNCHANGED <<procVars, ccmmVars, urlVars, fsVars>>

\* the scheduler marks the task below a failed one upstream_failed
UpstreamFailed ==
    /\ \E i \in 2..Len(Tasks) :
          /\ task[Tasks[i]] = "none"
          /\ task[Tasks[i - 1]] \in {"failed", "upstream_failed"}
          /\ task' = [task EXCEPT ![Tasks[i]] = "upstream_failed"]
    /\ UNCHANGED <<tries, dl_result, xcom, pstep, stages, task_raised>>
    /\ UNCHANGED <<procVars, ccmmVars, urlVars, fsVars>>

NextDag ==
    \/ DummyOperator
    \/ download_data
    \/ process_data_load
    \/ process_data_transform
    \/ process_data_score
    \/ process_data_export
    \/ store_data
    \/ generate_ccmm
    \/ generate_report
    \/ UpstreamFailed

SpecDag == InitDag /\ [][NextDag]_vars

\* ======================================================================
\* Properties of the processor (checked under Spec)
\* ======================================================================

\* the enriched frame exists
Transformed == df_transformed # UnsetRec

\* C1 (as claimed): geo_key is present only if both the region and the
\* district of the row are present, and is then region + '_' + district
C1_GeoKeyOnlyIfBoth ==
    (Transformed /\ HasCol(df, ColKraj) /\ HasCol(df, ColOkres)) =>
        \A i \in 1..df.n :
            LET kraj == df.col[ColKraj][i]
                okres == df.col[ColOkres][i]
                geo == RowGet(df_transformed, i, ColGeo)
            IN IF isna(kraj) \/ isna(okres)
               THEN isna(geo)
               ELSE geo = kraj \o <<"_">> \o okres

\* the arithmetic mean of the three ratios
MeanOf3(m) ==
    NumDivInt(NumAdd(NumAdd(m.email_completeness, m.web_completeness), m.active_ratio), 3)

\* C2 (as claimed): quality_score is the mean of the three ratios, and for a
\* record set with zero rows it is 0 and no division fault occurs
C2_QualityScoreMeanAndZeroRows ==
    /\ raised # "ZeroDivisionError"
    /\ metrics # NoneRec =>
          IF metrics.total_records = 0
          THEN NumEq(metrics.quality_score, Zero)
          ELSE NumEq(metrics.quality_score, MeanOf3(metrics))

\* two numbers are the same value (nan taken as a value)
SameNum(a, b) == (a.nan /\ b.nan) \/ NumEq(a, b)

\* the ratio of non-missing cells of column c of the enriched frame,
\* 0 by default when c is None
ExpectedCompleteness(c) ==
    IF c = None THEN Zero
    ELSE NpDiv(Cardinality({i \in 1..df_transformed.n : ~isna(df_transformed.col[c][i])}),
               df_transformed.n)

\* C3 (as claimed): email_completeness is computed over the first column whose
\* name contains 'e-mail' (the first e-mail column transform_data discovered),
\* web_completeness over the first whose name contains 'webov'; the default 0
\* is used only when no such column exists
C3_CompletenessOverDiscoveredColumns ==
    metrics # NoneRec =>
        /\ SameNum(metrics.email_completeness,
                   ExpectedCompleteness(
                       FirstCol(df, {c \in Range(df.cols) : ContainsLower(c, "e-mail")})))
        /\ SameNum(metrics.web_completeness,
                   ExpectedCompleteness(
                       FirstCol(df, {c \in Range(df.cols) : ContainsLower(c, "webov")})))

\* C3 (amended): email_completeness is computed over the first column of the
\* enriched record set whose lower-cased name contains both 'e-mail' and
\* 'knihovn', web_completeness over the first whose name contains 'webov';
\* each is the default 0 exactly when no such column exists
C3_CompletenessOverLibraryEmailColumn ==
    metrics # NoneRec =>
        /\ SameNum(metrics.email_completeness,
                   ExpectedCompleteness(
                       FirstCol(df_transformed,
                                {c \in Range(df_transformed.cols) :
                                    /\ ContainsLower(c, "e-mail")
                                    /\ ContainsLower(c, "knihovn")})))
        /\ SameNum(metrics.web_completeness,
                   ExpectedCompleteness(
                       FirstCol(df_transformed,
                                {c \in Range(df_transformed.cols) : ContainsLower(c, "webov")})))

\* C3 witness: the e-mail column found by transform_data does not mention the
\* library, has a value, got its validity column, and the scorer returned 0
C3_Witness ==
    /\ metrics # NoneRec
    /\ HasCol(df_transformed, ColEmailOther \o <<"_valid">>)
    /\ \E i \in 1..df_transformed.n : ~isna(df_transformed.col[ColEmailOther][i])
    /\ metrics.email_completeness = Zero

\* the text with every character of olds replaced by new
ReplaceEach(text, olds, new) == [k \in 1..Len(text) |-> IF text[k] \in olds THEN new ELSE text[k]]

\* the identifier and the URI of row i are absent with the registry number and
\* present with it, the identifier being the registry number with every
\* character of olds replaced by '-' and the URI the prefix followed by it
IdAndUriFollowRegistry(olds) ==
    Transformed =>
        \A i \in 1..df.n :
            LET reg == RowGet(df, i, ColReg)
                id == RowGet(df_transformed, i, ColId)
                uri == RowGet(df_transformed, i, ColUri)
            IN IF isna(reg)
               THEN isna(id) /\ isna(uri)
               ELSE /\ ~isna(id)
                    /\ ~isna(uri)
                    /\ id = ReplaceEach(reg, olds, "-")
                    /\ uri = UriPrefix \o id

C5_NoEmptyJsonldProperty ==
    exported # NoneRec =>
        /\ Len(exported.jsonld.graph) = exported.frame.n
        /\ \A i \in 1..Len(exported.jsonld.graph) :
              LET props == exported.jsonld.graph[i].props
              IN \A k \in DOMAIN props \cap {"@id", "name", "identifier", "email", "url"} :
                    ~isna(props[k]) /\ props[k] # <<>>

\* the text has the form local@domain.tld: one '@', a non-empty local part, a
\* '.' after the '@' with text on both sides, and no whitespace anywhere
LocalAtDomainTld(text) ==
    /\ \A k \in 1..Len(text) : text[k] \notin Whitespace
    /\ \E i \in 1..Len(text) :
          /\ text[i] = "@"
          /\ \A k \in 1..Len(text) : text[k] = "@" => k = i
          /\ i > 1
          /\ \E j \in (i + 2)..(Len(text) - 1) : text[j] = "."

\* C9 (as claimed): the validity flag of every e-mail value is true iff the
\* value has the form local@domain.tld with no whitespace anywhere; an absent
\* value gives false
C9_EmailFlagIffWellFormed ==
    Transformed =>
        \A n \in 1..Len(df.cols) :
            LET c == df.cols[n] IN
            ContainsLower(c, "e-mail") =>
                \A i \in 1..df.n :
                    RowGet(df_transformed, i, c \o <<"_valid">>) =
                        IF isna(df.col[c][i]) THEN False
                        ELSE Bool(LocalAtDomainTld(df.col[c][i]))

\* C10 (as claimed): for every raw value of a column whose name contains
\* 'PSČ', the '<col>_clean' value is the digits of the raw value in order, and
\* it is absent iff the raw value is absent
C10_PostalCodeDigitsOnly ==
    Transformed =>
        \A n \in 1..Len(df.cols) :
            LET c == df.cols[n] IN
            Contains(c, "PSC") =>
                \A i \in 1..df.n :
                    LET raw == df.col[c][i]
                        clean == RowGet(df_transformed, i, c \o <<"_clean">>)
                    IN /\ isna(clean) <=> isna(raw)
                       /\ ~isna(raw) =>
                             /\ \A k \in 1..Len(clean) : clean[k] \in Digits
                             /\ clean = SelectChars(raw, Digits)


\* C12 (as claimed): transform_data only adds columns: every column of the raw
\* record set is in the enriched record set under its name with the values it
\* had, whatever the raw header is
C12_RawColumnsPreserved ==
    Transformed =>
        \A n \in 1..Len(df.cols) :
            /\ HasCol(df_transformed, df.cols[n])
            /\ df_transformed.col[df.cols[n]] = df.col[df.cols[n]]

\* the enriched frame has a column that the raw frame has not and whose name
\* ends with suffix
HasDerivedWithSuffix(suffix) ==
    \E n \in 1..Len(df_transformed.cols) :
        LET c == df_transformed.cols[n]
        IN ~HasCol(df, c) /\ c[Len(c)] = suffix

\* the raw frame has a column with the keyword in its name (lower-cased or not)
HasRawKeyword(keyword, lower) ==
    \E n \in 1..Len(df.cols) :
        IF lower THEN ContainsLower(df.cols[n], keyword) ELSE Contains(df.cols[n], keyword)

\* C14 (as claimed): transform_data never raises, whatever the header is, and
\* the derived fields of a category are there iff its source column is: the
\* identifier, hash and URI with the registry-number column, '_clean' with a
\* 'PSČ' column, '_valid' with an e-mail column, '_normalized' with a website
\* column, is_active with the status column, geo_key with region and district
C14_MissingColumnNeverAnError ==
    /\ raised \notin {"AttributeError", "KeyError"}
    /\ Transformed =>
          /\ \A c \in {ColId, ColHash, ColUri} :
                HasCol(df_transformed, c) <=> HasCol(df, ColReg)
          /\ HasCol(df_transformed, ColGeo) <=> (HasCol(df, ColKraj) /\ HasCol(df, ColOkres))
          /\ HasCol(df_transformed, ColIsActive) <=> HasCol(df, ColStatus)
          /\ HasDerivedWithSuffix("_clean") <=> HasRawKeyword("PSC", FALSE)
          /\ HasDerivedWithSuffix("_valid") <=> HasRawKeyword("e-mail", TRUE)
          /\ HasDerivedWithSuffix("_normalized") <=> HasRawKeyword("webov", TRUE)


\* ======================================================================
\* Properties of the DAG (checked under SpecDag)
\* ======================================================================

\* the task has been started in this run
Started(t) == tries[t] > 0

\* C11: process_data starts only after a download whose status is 'success';
\* within process_data, Score starts right after Transform and Export right
\* after Score; generate_ccmm (Describe) starts only after process_data has
\* succeeded, that is after it went through Transform, Score and Export
C11_StagesInOrderAfterAcquisition ==
    /\ Started("process_data") =>
          dl_result = "success" /\ task["download_data"] = "success"
    /\ Started("generate_ccmm") =>
          task["process_data"] = "success" /\ pstep = "done"
    /\ \A i \in 1..Len(stages) :
          /\ stages[i] = "Transform" =>
                \E j \in 1..(i - 1) :
                    /\ stages[j] = "Acquire"
                    /\ \A k \in (j + 1)..i : stages[k] # "AcquireFailed"
          /\ stages[i] = "Score" => i > 1 /\ stages[i - 1] = "Transform"
          /\ stages[i] = "Export" => i > 1 /\ stages[i - 1] = "Score"
          /\ stages[i] = "Describe" =>
                \E j \in 1..(i - 1) :
                    /\ stages[j] = "Export"
                    /\ \A k \in (j + 1)..i : stages[k] = "Describe"

\* C11 witness: the download failed once and succeeded on its retry,
\* process_data failed once and succeeded on its retry, and generate_ccmm
\* succeeded
C11_Witness ==
    /\ tries["download_data"] = 2
    /\ tries["process_data"] = 2
    /\ task["generate_ccmm"] = "success"

\* ======================================================================
\* Properties of export_metadata (checked under SpecExport)
\* ======================================================================

\* C13 (as claimed): whatever directories of the output path are missing,
\* export_metadata creates them and writes the document
C13_ExportCreatesParents ==
    export_in # NotCalled =>
        /\ export_raised = "none"
        /\ fs_file # NoneRec
        /\ fs_file.path = export_in
        /\ \A n \in 0..(Len(export_in) - 1) : SubSeq(export_in, 1, n) \in fs_dirs

\* ======================================================================
\* Properties of a processor that reloads (checked under SpecReload)
\* ======================================================================

\* C15 (as claimed): the enriched record set that a successful
\* calculate_quality_metrics or export_formats call read is the
\* transformation of the raw record set loaded last
C15_EnrichedFollowsLatestLoad ==
    [][((calculate_quality_metrics \/ export_formats) /\ raised' = "none")
          => df_transformed' = TransformFrame(df').d]_vars

\* ======================================================================
\* Properties of the generated document (checked under SpecCcmmTask)
\* ======================================================================

\* C16: the document generate_dataset_metadata returns for any stats argument
\* is validated with is_valid true, no missing field and no warning, and
\* generate_ccmm_task does not raise its validation failure
C16_GeneratedDocumentValid ==
    /\ task_raised # "ValueError: CCMM validation failed"
    /\ (validation # NoneRec /\ metadata_in = ccmm_metadata) =>
          /\ validation.is_valid
          /\ validation.missing_fields = <<>>
          /\ validation.warnings = <<>>

\* C16 witness: generate_ccmm_task generated a document with quality
\* measurements from a mapping with an unrecognized key, validated it and
\* wrote it
C16_Witness ==
    /\ validation # NoneRec
    /\ metadata_in = ccmm_metadata
    /\ "web_completeness" \in DOMAIN stats_in.map
    /\ "dqv:hasQualityMeasurement" \in DOMAIN ccmm_metadata
    /\ task_raised = "none"
    /\ fs_file # NoneRec

====
